---- MODULE Spec2Model ----
(***************************************************************************)
(* A model of working.py, the poster generator: the background provider    *)
(* call with its retry loop, the gradient fallback, the logo processor,    *)
(* the outlined text renderer and the poster composer.                     *)
(*                                                                         *)
(* Every function of the source has a frame variable holding its           *)
(* parameters, locals and position (pc).  A specification exercises one    *)
(* function; the frames of the others stay Idle.                           *)
(***************************************************************************)
EXTENDS Integers, Sequences, FiniteSets, TLC

VARIABLES
    gen,    \* generate_simple_poster with create_background_via_api inlined
    grad,   \* create_gradient_background
    lg,     \* process_logo
    txt,    \* draw_text_with_outline
    lay,    \* apply_text_layout: geometry and the text draw calls
    px      \* apply_text_layout: the layers of one pixel

vars == <<gen, grad, lg, txt, lay, px>>

Idle == [pc |-> "idle"]

None == [none |-> TRUE]

Min(a, b) == IF a <= b THEN a ELSE b

Max(a, b) == IF a >= b THEN a ELSE b

Abs(a) == IF a >= 0 THEN a ELSE -a

(***************************************************************************)
(* process_logo: PIL's Image.thumbnail((max_size, max_size)) on a copy.    *)
(***************************************************************************)

\* def process_logo(logo_image, max_size=200)
max_size == 200

\* Image.thumbnail's round_aspect(number, key): of floor(number) and
\* ceil(number) the one with the smaller key (floor on a tie), at least 1.
\* The number is num/den; keyFloorLeq says key(floor) <= key(ceil).
round_aspect(num, den, keyFloorLeq) ==
    LET lo == num \div den
        hi == IF num % den = 0 THEN lo ELSE lo + 1
    IN  Max(IF keyFloorLeq THEN lo ELSE hi, 1)

\* Image.thumbnail(size): the size the image is reduced to, in place.
\* aspect = w/h; the image is left alone when it already fits.
thumbnail_size(w, h, x, y) ==
    IF x >= w /\ y >= h THEN <<w, h>>
    ELSE IF x * h >= y * w
         THEN \* x/y >= aspect: keep y, x = round_aspect(y*aspect),
              \* key n |-> |aspect - n/y|
              LET lo == (y * w) \div h
                  hi == IF (y * w) % h = 0 THEN lo ELSE lo + 1
              IN  <<round_aspect(y * w, h,
                        Abs(w * y - lo * h) <= Abs(w * y - hi * h)), y>>
         ELSE \* keep x, y = round_aspect(x/aspect),
              \* key n |-> 0 if n = 0 else |aspect - x/n|
              LET lo == (x * h) \div w
                  hi == IF (x * h) % w = 0 THEN lo ELSE lo + 1
              IN  <<x, round_aspect(x * h, w,
                        lo = 0 \/ Abs(w * lo - x * h) * hi
                                    <= Abs(w * hi - x * h) * lo)>>

\* Lines 85-86: the logo is converted to RGBA unless it already is.
logo_mode(mode) == IF mode # "RGBA" THEN "RGBA" ELSE mode

\* The value process_logo returns for the caller's image: None for no logo
\* and for any fault inside the try block, else the reduced RGBA copy.
process_logo(logo_image) ==
    IF logo_image = None THEN None
    ELSE IF logo_image.broken THEN None
    ELSE LET s == thumbnail_size(logo_image.size[1], logo_image.size[2],
                                 max_size, max_size)
         IN  [size |-> s, mode |-> logo_mode(logo_image.mode)]

(***************************************************************************)
(* generate_simple_poster and create_background_via_api.                   *)
(***************************************************************************)

\* The keys of aspect_ratios and a label that is not one of them.
Labels == {"1:1 - Square", "2:3 - Portrait", "3:2 - Landscape",
           "3:4 - Poster", "16:9 - Widescreen", "4:3 - Other"}

\* aspect_ratios.get(aspect_ratio, (1024, 1024))
aspect_ratios(label) ==
    CASE label = "1:1 - Square"      -> <<1024, 1024>>
      [] label = "2:3 - Portrait"    -> <<683, 1024>>
      [] label = "3:2 - Landscape"   -> <<1024, 683>>
      [] label = "3:4 - Poster"      -> <<768, 1024>>
      [] label = "16:9 - Widescreen" -> <<1024, 576>>
      [] OTHER                       -> <<1024, 1024>>

\* def create_background_via_api(prompt, width, height, retries=3)
retries == 3

\* The logo is pasted 40 pixels from the right and top edges.
logo_margin == 40

\* create_fallback_background(width, height)
color_top == <<100, 150, 255>>

color_bottom == <<150, 200, 255>>

create_fallback_background(width, height) ==
    [size |-> <<width, height>>, source |-> "gradient",
     colors |-> <<color_top, color_bottom>>]

\* Image.open(io.BytesIO(response.content)): whatever picture the provider
\* sent, of whatever size it has.
provider_image(size) == [size |-> size, source |-> "provider", colors |-> None]

\* The logos a user uploads: the sizes, the modes, and a file PIL cannot
\* process.
LogoSizes == {<<64, 64>>, <<200, 200>>, <<640, 480>>, <<300, 1200>>}

LogoInputs ==
    {None} \cup [size : LogoSizes, mode : {"RGB", "RGBA"}, broken : BOOLEAN]

\* The sizes of the pictures a provider sends apart from the size asked for.
ProviderSizes == {<<512, 512>>, <<128, 128>>}

GenInit ==
    /\ grad = Idle /\ lg = Idle /\ txt = Idle /\ lay = Idle /\ px = Idle
    /\ gen \in [aspect_ratio : Labels, logo_image : LogoInputs,
             HF_TOKEN : BOOLEAN, pc : {"select"}, width : {0}, height : {0},
             i : {0}, sent : {0}, status : {"none"}, background : {None},
             processed_logo : {None}, logo_pos : {None},
             final_poster : {None}, exception : {"none"}]

\* The frames of the other functions are not touched.
GenOnly == UNCHANGED <<grad, lg, txt, lay, px>>

\* Lines 150-157: the dimensions are looked up from the label.
SelectDimensions ==
    /\ gen.pc = "select"
    /\ LET wh == aspect_ratios(gen.aspect_ratio)
       IN  gen' = [gen EXCEPT !.width = wh[1], !.height = wh[2],
                              !.pc = "token"]
    /\ GenOnly

\* Lines 14-17: without a token no request is sent.
TokenMissing ==
    /\ gen.pc = "token"
    /\ ~gen.HF_TOKEN
    /\ gen' = [gen EXCEPT !.background =
                              create_fallback_background(gen.width, gen.height),
                          !.pc = "logo"]
    /\ GenOnly

TokenFound ==
    /\ gen.pc = "token"
    /\ gen.HF_TOKEN
    /\ gen' = [gen EXCEPT !.pc = "request"]
    /\ GenOnly

\* Lines 35-38: status 200, the response body is opened as the background.
Status200 ==
    /\ gen.pc = "request"
    /\ gen.i < retries
    /\ \E size \in ProviderSizes \cup {<<gen.width, gen.height>>} :
         gen' = [gen EXCEPT !.sent = @ + 1, !.status = "200",
                            !.background = provider_image(size),
                            !.pc = "logo"]
    /\ GenOnly

\* Line 38 on a body that is no picture: Image.open raises
\* UnidentifiedImageError, which the except clause of line 46 does not name.
Status200Undecodable ==
    /\ gen.pc = "request"
    /\ gen.i < retries
    /\ gen' = [gen EXCEPT !.sent = @ + 1, !.status = "200",
                          !.exception = "UnidentifiedImageError",
                          !.pc = "raised"]
    /\ GenOnly

\* Lines 39-42: status 503.  Line 41 calls time.sleep, and the module never
\* imports time (lines 1-5): the name lookup raises NameError, which the
\* except clause of line 46 does not name; the continue of line 42 is not
\* reached.
Status503 ==
    /\ gen.pc = "request"
    /\ gen.i < retries
    /\ gen' = [gen EXCEPT !.sent = @ + 1, !.status = "503",
                          !.exception = "NameError", !.pc = "raised"]
    /\ GenOnly

\* Lines 43-45 and 46-48: another status, or a RequestException (a timeout
\* is one): break, then lines 50-51.  (Line 26 ending the loop after
\* `retries` attempts would lead there too, but no attempt is followed by
\* another: gen.i stays 0.)
AttemptsEnd ==
    /\ gen.pc = "request"
    /\ \E st \in {"other", "RequestException"} :
         /\ gen.i < retries
         /\ gen' = [gen EXCEPT !.sent = @ + 1, !.status = st,
                      !.background =
                          create_fallback_background(gen.width, gen.height),
                      !.pc = "logo"]
    /\ GenOnly

\* Line 162.
ProcessLogo ==
    /\ gen.pc = "logo"
    /\ gen' = [gen EXCEPT !.processed_logo = process_logo(gen.logo_image),
                          !.pc = "layout"]
    /\ GenOnly

\* Lines 140-141: where the logo is pasted on a poster `width` wide.
logo_pos(width, logo) == <<width - logo.size[1] - logo_margin, logo_margin>>

\* Line 163: apply_text_layout; the poster has the size of the background
\* (lines 111-112) and is converted to RGB (line 145).
ApplyTextLayout ==
    /\ gen.pc = "layout"
    /\ gen' = [gen EXCEPT
                 !.logo_pos = IF gen.processed_logo # None
                              THEN logo_pos(gen.background.size[1],
                                            gen.processed_logo)
                              ELSE None,
                 !.final_poster = [size |-> gen.background.size,
                                   mode |-> "RGB"],
                 !.pc = "done"]
    /\ GenOnly

GenNext ==
    \/ SelectDimensions
    \/ TokenMissing
    \/ TokenFound
    \/ Status200
    \/ Status200Undecodable
    \/ Status503
    \/ AttemptsEnd
    \/ ProcessLogo
    \/ ApplyTextLayout

Spec == GenInit /\ [][GenNext]_vars

(***************************************************************************)
(* process_logo, statement by statement.  Images are objects: lg.images    *)
(* maps a reference to the image it names, so that a copy and an alias     *)
(* differ.  The caller's image is held under reference 1, and reference 0  *)
(* is Python's None.                                                       *)
(***************************************************************************)

\* The largest logo width and height explored.
MaxLogoDim == 400

\* Mutant of copy_ref: no copy is made, logo is another name of the caller's
\* image.
copy_ref_alias(ref, free) == ref

\* Line 83, logo_image.copy(): the reference of the new image, given the next
\* free reference.
copy_ref(ref, free) == free

LogoInit ==
    /\ gen = Idle /\ grad = Idle /\ txt = Idle /\ lay = Idle /\ px = Idle
    /\ \E size \in (1..MaxLogoDim) \X (1..MaxLogoDim),
          mode \in {"RGB", "RGBA"}, broken \in BOOLEAN, absent \in BOOLEAN :
         /\ absent => (size = <<1, 1>> /\ mode = "RGB" /\ ~broken)
         /\ broken => size[2] = 1
         /\ lg = [pc |-> "call",
                  images |-> IF absent THEN <<>>
                             ELSE <<[size |-> size, mode |-> mode]>>,
                  logo_image |-> IF absent THEN 0 ELSE 1,
                  broken |-> broken,
                  original |-> IF absent THEN None
                               ELSE [size |-> size, mode |-> mode],
                  logo |-> 0,
                  result |-> None]

LogoOnly == UNCHANGED <<gen, grad, txt, lay, px>>

\* Lines 80-81: no logo, None is returned.
LogoAbsent ==
    /\ lg.pc = "call"
    /\ lg.logo_image = 0
    /\ lg' = [lg EXCEPT !.pc = "done"]
    /\ LogoOnly

\* Lines 88-90: a fault inside the try block, None is returned.
LogoFault ==
    /\ lg.pc = "call"
    /\ lg.logo_image # 0
    /\ lg.broken
    /\ lg' = [lg EXCEPT !.pc = "done"]
    /\ LogoOnly

\* Line 83: logo = logo_image.copy()
LogoCopy ==
    /\ lg.pc = "call"
    /\ lg.logo_image # 0
    /\ ~lg.broken
    /\ LET r == copy_ref(lg.logo_image, Len(lg.images) + 1)
       IN  lg' = [lg EXCEPT
                    !.images = IF r > Len(lg.images)
                               THEN Append(@, @[lg.logo_image]) ELSE @,
                    !.logo = r,
                    !.pc = "thumbnail"]
    /\ LogoOnly

\* Line 84: logo.thumbnail((max_size, max_size), LANCZOS) resizes the image
\* `logo` names, in place.
LogoThumbnail ==
    /\ lg.pc = "thumbnail"
    /\ LET im == lg.images[lg.logo]
       IN  lg' = [lg EXCEPT
                    !.images[lg.logo].size =
                        thumbnail_size(im.size[1], im.size[2],
                                       max_size, max_size),
                    !.pc = "convert"]
    /\ LogoOnly

\* Lines 85-87: convert makes a new image; the logo is returned.
LogoConvertReturn ==
    /\ lg.pc = "convert"
    /\ LET im == lg.images[lg.logo]
       IN  IF im.mode # "RGBA"
           THEN lg' = [lg EXCEPT
                         !.images = Append(@, [im EXCEPT
                                                 !.mode = logo_mode(im.mode)]),
                         !.logo = Len(lg.images) + 1,
                         !.result = [im EXCEPT !.mode = logo_mode(im.mode)],
                         !.pc = "done"]
           ELSE lg' = [lg EXCEPT !.result = im, !.pc = "done"]
    /\ LogoOnly

LogoNext ==
    \/ LogoAbsent
    \/ LogoFault
    \/ LogoCopy
    \/ LogoThumbnail
    \/ LogoConvertReturn

SpecLogo == LogoInit /\ [][LogoNext]_vars

\* A logo was passed and processed without a fault.
LogoReturned == lg.pc = "done" /\ lg.result # None

\* C6: for any logo at least 1x1 and maxSize = 200, the returned logo's
\* larger dimension is at most 200, its aspect ratio is the input's within
\* integer rounding (the scaled dimension is less than one pixel from the
\* exact value), a logo already within the bound keeps its dimensions, and
\* the caller's image is left as it was.
C6_LogoBound ==
    LogoReturned =>
        LET W  == lg.original.size[1]
            H  == lg.original.size[2]
            rw == lg.result.size[1]
            rh == lg.result.size[2]
        IN  /\ rw >= 1 /\ rh >= 1
            /\ Max(rw, rh) <= 200
            /\ (W <= 200 /\ H <= 200) => (rw = W /\ rh = H)
            /\ (W > 200 /\ W >= H) => (rw = 200 /\ Abs(rh * W - 200 * H) < W)
            /\ (H > 200 /\ H >= W) => (rh = 200 /\ Abs(rw * H - 200 * W) < H)
            /\ lg.images[lg.logo_image] = lg.original

\* A logo larger than the bound was reduced, one side rounded.
C6_Witness ==
    /\ LogoReturned
    /\ lg.original.size = <<230, 7>>
    /\ lg.result.size = <<200, 6>>
    /\ lg.images[lg.logo_image].size = <<230, 7>>

(***************************************************************************)
(* draw_text_with_outline.  A font gives a text its bounding box: drawn at *)
(* (x, y) the text covers the columns x + left up to x + right, where      *)
(* (left, top, right, bottom) = draw.textbbox((0, 0), text, font).         *)
(***************************************************************************)

\* The widest text and the rightmost x explored.
MaxTextWidth == 6

MaxTextX == 8

\* The left offsets of a bounding box: the first glyph's side bearing.
BboxLefts == {-3, -1, 0, 2}

\* Lines 93-100: the x the text is drawn at.  With textbbox (lines 96-97)
\* half the box's width is taken off; without it (lines 98-100) half the
\* width w that draw.textsize returns for the text.
text_x(x, left, right, center, has_textbbox) ==
    IF ~center THEN x
    ELSE IF has_textbbox THEN x - ((right - left) \div 2)
    ELSE LET w == right - left IN x - (w \div 2)

\* Lines 103-108: the draw.text calls in order, the 24 outline copies for
\* dx, dy in range(-2, 3) without (0, 0), then the fill.
text_draws(x, y, fill_color, outline_color) ==
    [k \in 1..25 |->
        IF k = 25 THEN [xy |-> <<x, y>>, fill |-> fill_color]
        ELSE LET j == IF k <= 12 THEN k - 1 ELSE k
             IN  [xy |-> <<x + (j \div 5) - 2, y + (j % 5) - 2>>,
                  fill |-> outline_color]]

TextInit ==
    /\ gen = Idle /\ grad = Idle /\ lg = Idle /\ lay = Idle /\ px = Idle
    /\ \E x \in 0..MaxTextX, left \in BboxLefts, w \in 1..MaxTextWidth,
          center \in BOOLEAN, has_textbbox \in BOOLEAN :
         txt = [pc |-> "call", x |-> x, y |-> 0,
                bbox |-> <<left, 0, left + w, 1>>,
                center |-> center, has_textbbox |-> has_textbbox,
                fill_color |-> "white", outline_color |-> "black",
                drawn_x |-> 0, draws |-> <<>>]

TextOnly == UNCHANGED <<gen, grad, lg, lay, px>>

\* Lines 96-97 and 103-108.
DrawWithTextbbox ==
    /\ txt.pc = "call"
    /\ txt.has_textbbox
    /\ LET x == text_x(txt.x, txt.bbox[1], txt.bbox[3], txt.center, TRUE)
       IN  txt' = [txt EXCEPT
                     !.drawn_x = x,
                     !.draws = text_draws(x, txt.y, txt.fill_color,
                                          txt.outline_color),
                     !.pc = "done"]
    /\ TextOnly

\* Lines 98-100 and 103-108: draw.textbbox is missing (AttributeError).
DrawWithTextsize ==
    /\ txt.pc = "call"
    /\ ~txt.has_textbbox
    /\ LET x == text_x(txt.x, txt.bbox[1], txt.bbox[3], txt.center, FALSE)
       IN  txt' = [txt EXCEPT
                     !.drawn_x = x,
                     !.draws = text_draws(x, txt.y, txt.fill_color,
                                          txt.outline_color),
                     !.pc = "done"]
    /\ TextOnly

TextNext ==
    \/ DrawWithTextbbox
    \/ DrawWithTextsize

SpecText == TextInit /\ [][TextNext]_vars

\* Twice the horizontal midpoint of the text as filled: the fill is the last
\* draw, and drawn at x it covers x + left up to x + right.
TwiceTextMidpoint == 2 * txt.draws[25].xy[1] + txt.bbox[1] + txt.bbox[3]

\* C8: with center=true the midpoint of the rendered text, its bounding box
\* at the drawing position with the box's left offset counted, is within 1px
\* of x; with center=false the text is drawn at x.
C8_CenteredWithinOnePixel ==
    txt.pc = "done" =>
        /\ txt.center => Abs(TwiceTextMidpoint - 2 * txt.x) <= 2
        /\ ~txt.center => txt.draws[25].xy[1] = txt.x

(***************************************************************************)
(* create_gradient_background.  Lines 64-67 are evaluated in binary        *)
(* floating point: ratio = y / height is rounded, and so are 1 - ratio,    *)
(* the two products and their sum, before int() truncates.  Where the      *)
(* exact value is a whole number the rounded sum can fall just below it,   *)
(* and int() then gives one less.                                          *)
(***************************************************************************)

\* The tallest and widest gradient explored.
MaxGradHeight == 6

MaxGradWidth == 2

\* The colours explored: the two fallback colours and others with channels
\* 0, 5, 100, 150, 200, 255.
GradColors == {<<100, 150, 255>>, <<150, 200, 255>>, <<5, 200, 0>>,
               <<255, 5, 100>>, <<0, 0, 0>>, <<200, 100, 150>>}

\* The <<c1, c2, y, height>> with channels 0, 5, 100, 150, 200, 255 and
\* height up to 8 for which int(c1 * (1 - y / height) + c2 * (y / height))
\* in IEEE double arithmetic is one below the exact value, a whole number:
\* for <<100, 0, 4, 5>> the sum is 19.999999999999996.
FloatBelow ==
    {<<5, 200, 1, 3>>, <<5, 200, 2, 3>>, <<5, 0, 4, 5>>, <<100, 0, 4, 5>>,
     <<100, 5, 4, 5>>, <<150, 0, 4, 5>>, <<150, 5, 4, 5>>, <<200, 0, 4, 5>>,
     <<200, 5, 4, 5>>, <<255, 0, 4, 5>>, <<255, 5, 4, 5>>, <<5, 200, 2, 6>>,
     <<5, 200, 4, 6>>, <<150, 0, 5, 6>>, <<255, 150, 3, 7>>,
     <<255, 255, 3, 7>>}

\* Mutant of gradient_channel: the two colours change places.
gradient_channel_swapped(c1, c2, y, height) ==
    (c2 * (height - y) + c1 * y) \div height

\* Lines 64-67: int(c1 * (1 - ratio) + c2 * ratio) with ratio = y / height.
gradient_channel(c1, c2, y, height) ==
    LET exact == (c1 * (height - y) + c2 * y) \div height
    IN  IF <<c1, c2, y, height>> \in FloatBelow THEN exact - 1 ELSE exact

\* Line 68: draw.line([(0, y), (width, y)]) paints the columns 0..width of
\* row y that the image has.
line_columns(width) == {x \in 0..width : x < width}

\* Line 61: Image.new('RGB', (width, height)) is black.
new_image(width, height) ==
    [y \in 1..height |-> [x \in 1..width |-> <<0, 0, 0>>]]

GradInit ==
    /\ gen = Idle /\ lg = Idle /\ txt = Idle /\ lay = Idle /\ px = Idle
    /\ \E width \in 1..MaxGradWidth, height \in 1..MaxGradHeight,
          color1 \in GradColors, color2 \in GradColors :
         grad = [pc |-> "loop", width |-> width, height |-> height,
                 color1 |-> color1, color2 |-> color2,
                 image |-> new_image(width, height), y |-> 0,
                 calls |-> 1, first |-> None]

GradOnly == UNCHANGED <<gen, lg, txt, lay, px>>

\* Lines 63-68: one row of the loop.
GradientRow ==
    /\ grad.pc = "loop"
    /\ grad.y < grad.height
    /\ LET y   == grad.y
           rgb == [c \in 1..3 |->
                     gradient_channel(grad.color1[c], grad.color2[c], y,
                                      grad.height)]
       IN  grad' = [grad EXCEPT
                      !.image[y + 1] =
                          [x \in 1..grad.width |->
                              IF x - 1 \in line_columns(grad.width)
                              THEN rgb ELSE @[x]],
                      !.y = y + 1]
    /\ GradOnly

\* Line 69.
GradientReturn ==
    /\ grad.pc = "loop"
    /\ grad.y = grad.height
    /\ grad' = [grad EXCEPT !.pc = "done"]
    /\ GradOnly

\* The function is called again with the same arguments.
GradientCallAgain ==
    /\ grad.pc = "done"
    /\ grad.calls = 1
    /\ grad' = [grad EXCEPT !.pc = "loop", !.y = 0, !.calls = 2,
                            !.first = grad.image,
                            !.image = new_image(grad.width, grad.height)]
    /\ GradOnly

GradNext ==
    \/ GradientRow
    \/ GradientReturn
    \/ GradientCallAgain

SpecGradient == GradInit /\ [][GradNext]_vars

\* The exact value of a channel in row y, as numerator over grad.height.
GradNumerator(c, y) ==
    grad.color1[c] * (grad.height - y) + grad.color2[c] * y

\* The bottom row is one step of the gradient short of colorBottom: within
\* |colorBottom - colorTop| / height, and 1 for the truncation.
BottomRowNearColorBottom ==
    \A x \in 1..grad.width, c \in 1..3 :
        Abs(grad.image[grad.height][x][c] - grad.color2[c]) * grad.height
            <= Abs(grad.color2[c] - grad.color1[c]) + grad.height

\* C7 as stated: the same bitmap on repeated calls, every pixel of row y has
\* each channel equal to trunc(colorTop*(1 - y/height) +
\* colorBottom*(y/height)), row 0 is colorTop, and the bottom row is
\* colorBottom within rounding.
C7_RowsAreExactTruncation ==
    grad.pc = "done" =>
        /\ grad.calls = 2 => grad.image = grad.first
        /\ \A y \in 0..(grad.height - 1), x \in 1..grad.width, c \in 1..3 :
             grad.image[y + 1][x][c] = GradNumerator(c, y) \div grad.height
        /\ \A x \in 1..grad.width : grad.image[1][x] = grad.color1
        /\ BottomRowNearColorBottom

\* C7 as amended: the same bitmap on repeated calls; every channel of row y
\* is the truncation of the exact value, or one less where the exact value
\* is a whole number; row 0 is colorTop; the bottom row is colorBottom
\* within one gradient step and the truncation.
C7_RowsAreTruncationOrOneBelow ==
    grad.pc = "done" =>
        /\ grad.calls = 2 => grad.image = grad.first
        /\ \A y \in 0..(grad.height - 1), x \in 1..grad.width, c \in 1..3 :
             LET v == grad.image[y + 1][x][c]
                 n == GradNumerator(c, y)
             IN  /\ n % grad.height # 0 => v = n \div grad.height
                 /\ n % grad.height = 0 =>
                        v \in {n \div grad.height, (n \div grad.height) - 1}
        /\ \A x \in 1..grad.width : grad.image[1][x] = grad.color1
        /\ BottomRowNearColorBottom

\* (255, 5, 100) to black on 5 rows, painted twice: the exact last row is
\* (51, 1, 20) and the row painted is one below in every channel.
C7_Witness ==
    /\ grad.pc = "done"
    /\ grad.calls = 2
    /\ grad.height = 5
    /\ grad.color1 = <<255, 5, 100>>
    /\ grad.color2 = <<0, 0, 0>>
    /\ \A x \in 1..grad.width : grad.image[5][x] = <<50, 0, 19>>

(***************************************************************************)
(* apply_text_layout: the geometry and the text it draws.  A string is a   *)
(* sequence of characters; "\n" is the newline and " " the whitespace.     *)
(***************************************************************************)

\* The longest details string explored.
MaxDetailsLen == 5

Chars == {"A", "B", " ", "\n"}

Whitespace == {" ", "\n"}

\* The example of the specification, "A\n\n  \nB".
ExampleDetails == <<"A", "\n", "\n", " ", " ", "\n", "B">>

DetailsInputs ==
    UNION {[1..n -> Chars] : n \in 0..MaxDetailsLen} \cup {ExampleDetails}

SubtitleInputs == {<<>>, <<"T">>, <<" ">>, <<"T", " ", "S">>}

\* The sizes of the backgrounds laid out.
LayoutSizes == {<<1024, 1024>>, <<683, 1024>>, <<1024, 576>>}

RECURSIVE split(_, _)
\* str.split(sep): the pieces between the separators, empty ones kept.
split(s, sep) ==
    IF \A i \in 1..Len(s) : s[i] # sep THEN <<s>>
    ELSE LET i == CHOOSE j \in 1..Len(s) :
                     s[j] = sep /\ \A k \in 1..(j - 1) : s[k] # sep
         IN  <<SubSeq(s, 1, i - 1)>> \o split(SubSeq(s, i + 1, Len(s)), sep)

RECURSIVE lstrip(_)
lstrip(s) ==
    IF s # <<>> /\ Head(s) \in Whitespace THEN lstrip(Tail(s)) ELSE s

RECURSIVE rstrip(_)
rstrip(s) ==
    IF s # <<>> /\ s[Len(s)] \in Whitespace
    THEN rstrip(SubSeq(s, 1, Len(s) - 1)) ELSE s

\* str.strip()
strip(s) == rstrip(lstrip(s))

RECURSIVE stripped_lines(_, _)
\* [line.strip() for line in lines if keep(line)]
stripped_lines(lines, keepBlank) ==
    IF lines = <<>> THEN <<>>
    ELSE IF strip(Head(lines)) # <<>> \/ keepBlank
         THEN <<strip(Head(lines))>> \o stripped_lines(Tail(lines), keepBlank)
         ELSE stripped_lines(Tail(lines), keepBlank)

\* Mutant of details_lines: the blank lines are not filtered out.
details_lines_unfiltered(details) ==
    IF details = <<>> THEN <<>>
    ELSE stripped_lines(split(details, "\n"), TRUE)

\* Lines 134-135: nothing for an empty details string, else
\* [line.strip() for line in details.split('\n') if line.strip()]
details_lines(details) ==
    IF details = <<>> THEN <<>>
    ELSE stripped_lines(split(details, "\n"), FALSE)

\* Line 120
base_size(width, height) == Min(width, height) \div 15

\* Line 121, int(base_size * 0.8)
subtitle_size(base) == (base * 8) \div 10

\* Line 122, int(base_size * 0.5)
details_size(base) == (base * 5) \div 10

\* Line 128, int(base_size * 1.2)
spacing(base) == (base * 12) \div 10

\* Line 138, int(details_size * 1.5)
line_step(dsize) == (dsize * 15) \div 10

\* Mutant of y_after_subtitle: the gap is inserted without a subtitle too.
y_after_subtitle_always(subtitle, y_pos, gap) == y_pos + gap

\* Lines 130-132: the cursor after the subtitle step.
y_after_subtitle(subtitle, y_pos, gap) ==
    IF subtitle # <<>> THEN y_pos + gap ELSE y_pos

\* A call of draw_text_with_outline(draw, text, x, y, font, fill, 'black',
\* center=True) with the font get_font(size).
draw_call(text, x, y, size, fill) ==
    [text |-> text, x |-> x, y |-> y, font_size |-> size, fill |-> fill,
     outline |-> "black", center |-> TRUE]

LayoutInit ==
    /\ gen = Idle /\ grad = Idle /\ lg = Idle /\ txt = Idle /\ px = Idle
    /\ \E size \in LayoutSizes, subtitle \in SubtitleInputs,
          details \in DetailsInputs :
         lay = [pc |-> "geometry", width |-> size[1], height |-> size[2],
                subtitle |-> subtitle, details |-> details,
                base_size |-> 0, y_pos |-> 0, details_lines |-> <<>>,
                i |-> 0, draws |-> <<>>]

LayoutOnly == UNCHANGED <<gen, grad, lg, txt, px>>

\* Lines 120-128.
LayoutGeometry ==
    /\ lay.pc = "geometry"
    /\ lay' = [lay EXCEPT !.base_size = base_size(lay.width, lay.height),
                          !.y_pos = lay.height \div 3,
                          !.pc = "subtitle"]
    /\ LayoutOnly

\* Lines 130-132.
LayoutSubtitle ==
    /\ lay.pc = "subtitle"
    /\ lay' = [lay EXCEPT
                 !.draws = IF lay.subtitle # <<>>
                           THEN Append(@, draw_call(lay.subtitle,
                                    lay.width \div 2, lay.y_pos,
                                    subtitle_size(lay.base_size), "white"))
                           ELSE @,
                 !.y_pos = y_after_subtitle(lay.subtitle, @,
                                            spacing(lay.base_size)),
                 !.pc = "details"]
    /\ LayoutOnly

\* Lines 134-135.
LayoutSplitDetails ==
    /\ lay.pc = "details"
    /\ lay' = [lay EXCEPT !.details_lines = details_lines(lay.details),
                          !.i = 0, !.pc = "lines"]
    /\ LayoutOnly

\* Lines 136-138: one detail line.
LayoutDetailLine ==
    /\ lay.pc = "lines"
    /\ lay.i < Len(lay.details_lines)
    /\ lay' = [lay EXCEPT
                 !.draws = Append(@, draw_call(lay.details_lines[lay.i + 1],
                               lay.width \div 2, lay.y_pos,
                               details_size(lay.base_size), "lightgray")),
                 !.y_pos = @ + line_step(details_size(lay.base_size)),
                 !.i = @ + 1]
    /\ LayoutOnly

\* Lines 140-145: the text is all drawn.
LayoutReturn ==
    /\ lay.pc = "lines"
    /\ lay.i = Len(lay.details_lines)
    /\ lay' = [lay EXCEPT !.pc = "done"]
    /\ LayoutOnly

LayoutNext ==
    \/ LayoutGeometry
    \/ LayoutSubtitle
    \/ LayoutSplitDetails
    \/ LayoutDetailLine
    \/ LayoutReturn

SpecLayout == LayoutInit /\ [][LayoutNext]_vars

\* The draw calls made for detail lines, in order.
DetailDraws == SelectSeq(lay.draws, LAMBDA d : d.fill = "lightgray")

\* The newlines of the details string: the k-th is at NewlineAt(k); the
\* string is taken to have one before its start and one after its end.
NewlineCount == Cardinality({i \in 1..Len(lay.details) : lay.details[i] = "\n"})

NewlineAt(k) ==
    IF k = 0 THEN 0
    ELSE IF k > NewlineCount THEN Len(lay.details) + 1
    ELSE CHOOSE i \in 1..Len(lay.details) :
            /\ lay.details[i] = "\n"
            /\ Cardinality({j \in 1..i : lay.details[j] = "\n"}) = k

\* The k-th line of the details string with its blanks trimmed.
TrimmedLine(k) ==
    LET inside == {i \in (NewlineAt(k - 1) + 1)..(NewlineAt(k) - 1) :
                      lay.details[i] # " "}
    IN  IF inside = {} THEN <<>>
        ELSE SubSeq(lay.details,
                    CHOOSE i \in inside : \A j \in inside : i <= j,
                    CHOOSE i \in inside : \A j \in inside : i >= j)

\* The lines that are not empty once trimmed, in their order.
ExpectedLines ==
    SelectSeq([k \in 1..(NewlineCount + 1) |-> TrimmedLine(k)],
              LAMBDA l : l # <<>>)

\* The geometry as the specification gives it, in whole pixels.
ExpectedBase == Min(lay.width, lay.height) \div 15

ExpectedFirstDetailY ==
    (lay.height \div 3)
        + (IF lay.subtitle # <<>> THEN (12 * ExpectedBase) \div 10 ELSE 0)

\* C4: the detail lines rendered are exactly the lines that are non-empty
\* after trimming, in order and trimmed, and the k-th (from 0) is drawn at
\* y0 + k * int(1.5 * detailFontSize), y0 the cursor after the subtitle
\* step; blank lines are not rendered and add no gap.
C4_DetailLinesFilteredAndSpaced ==
    lay.pc = "done" =>
        /\ [k \in 1..Len(DetailDraws) |-> DetailDraws[k].text] = ExpectedLines
        /\ \A k \in 1..Len(DetailDraws) :
             DetailDraws[k].y =
                 ExpectedFirstDetailY
                     + (k - 1) * ((3 * (ExpectedBase \div 2)) \div 2)

\* The specification's example on a 1024x1024 poster without subtitle: "A"
\* at 341 and "B" one line step, 51, below.
C4_Witness ==
    /\ lay.pc = "done"
    /\ lay.details = ExampleDetails
    /\ lay.subtitle = <<>>
    /\ lay.width = 1024 /\ lay.height = 1024
    /\ lay.draws = <<draw_call(<<"A">>, 512, 341, 34, "lightgray"),
                     draw_call(<<"B">>, 512, 392, 34, "lightgray")>>

\* C5: a non-empty subtitle is drawn centred at (width/2, height/3) and the
\* first detail line then at height/3 + spacing, spacing = 1.2 x base; an
\* empty subtitle draws nothing and inserts no gap, the first detail line is
\* at height/3.
C5_SubtitleStep ==
    lay.pc = "done" =>
        /\ lay.subtitle # <<>> =>
             /\ Len(lay.draws) >= 1
             /\ lay.draws[1].text = lay.subtitle
             /\ lay.draws[1].x = lay.width \div 2
             /\ lay.draws[1].y = lay.height \div 3
             /\ lay.draws[1].center
             /\ lay.draws[1].fill = "white"
             /\ Len(DetailDraws) = Len(lay.draws) - 1
             /\ Len(lay.draws) >= 2 =>
                    lay.draws[2].y =
                        (lay.height \div 3) + (12 * ExpectedBase) \div 10
        /\ lay.subtitle = <<>> =>
             /\ DetailDraws = lay.draws
             /\ Len(lay.draws) >= 1 => lay.draws[1].y = lay.height \div 3

\* A subtitle and a detail line on a 1024x1024 poster: base 68, the subtitle
\* at (512, 341) and the detail line at 341 + 81.
C5_Witness ==
    /\ lay.pc = "done"
    /\ lay.width = 1024 /\ lay.height = 1024
    /\ lay.subtitle = <<"T">>
    /\ Len(lay.draws) = 2
    /\ lay.draws[1].y = 341
    /\ lay.draws[2].y = 422

(***************************************************************************)
(* apply_text_layout: the layers, followed at one pixel of the poster.     *)
(* The background is an RGB image (create_gradient_background makes one);  *)
(* the pixel meets the processed logo or lies outside it, and the text     *)
(* draws cover it fully, partly (an antialiased edge) or not at all.       *)
(* The arithmetic is that of Pillow's AlphaComposite.c, Paste.c and        *)
(* Draw.c / Fill.c on 8-bit channels.                                      *)
(***************************************************************************)

black == <<0, 0, 0>>

white == <<255, 255, 255>>

lightgray == <<211, 211, 211>>

\* Line 117: the alpha of the darkening layer (0, 0, 0, 80).
darken_alpha == 80

\* Pillow's DIV255 and BLEND: a rounded division by 255 and the mix of in1
\* and in2 by an 8-bit mask.
DIV255(a) == ((a + 128) + ((a + 128) \div 256)) \div 256

BLEND(mask, in1, in2) == DIV255(in1 * (255 - mask) + in2 * mask)

\* Pillow's SHIFTFORDIV255
SHIFTFORDIV255(a) == ((a \div 256) + a) \div 256

\* Image.alpha_composite(dst, src) on one RGBA pixel: src over dst, with 7
\* bits of extra precision.
alpha_composite(dst, src) ==
    IF src[4] = 0 THEN dst
    ELSE LET blend   == dst[4] * (255 - src[4])
             outa255 == src[4] * 255 + blend
             coef1   == (src[4] * 255 * 255 * 128) \div outa255
             coef2   == 255 * 128 - coef1
             ch(c)   == SHIFTFORDIV255(src[c] * coef1 + dst[c] * coef2
                                           + 128 * 128) \div 128
         IN  <<ch(1), ch(2), ch(3), SHIFTFORDIV255(outa255 + 128)>>

\* Image.paste(im, box, mask) on one RGBA pixel with an RGBA mask: all four
\* bands are mixed by the mask's alpha.
paste(dst, src, mask) == [c \in 1..4 |-> BLEND(mask[4], dst[c], src[c])]

\* ImageDraw.text on one pixel of an RGBA image: where the glyph's coverage
\* is not 0 the colour bands take the ink, and alpha is mixed by the
\* coverage.
draw_text_pixel(dst, coverage, ink) ==
    IF coverage = 0 THEN dst
    ELSE <<ink[1], ink[2], ink[3], BLEND(coverage, dst[4], 255)>>

\* Line 111, convert('RGBA') of an RGB pixel: it is opaque.
convert_RGBA(rgb) == <<rgb[1], rgb[2], rgb[3], 255>>

\* Line 145, convert('RGB'): the alpha band is dropped.
convert_RGB(rgba) == <<rgba[1], rgba[2], rgba[3]>>

\* Lines 117-118
darken(poster) == alpha_composite(poster, <<0, 0, 0, darken_alpha>>)

\* Line 144
flatten(poster, overlay) == alpha_composite(poster, overlay)

\* Mutant of next_stage: the logo is pasted before the background is
\* darkened.
next_stage_logo_first(stage) ==
    CASE stage = "convert" -> "paste"
      [] stage = "paste"   -> "darken"
      [] stage = "darken"  -> "text"
      [] stage = "text"    -> "flatten"
      [] stage = "flatten" -> "to_rgb"
      [] OTHER             -> "done"

\* The order of the statements of apply_text_layout: lines 111-113, 117-118,
\* 130-138, 140-142, 144, 145.
next_stage(stage) ==
    CASE stage = "convert" -> "darken"
      [] stage = "darken"  -> "text"
      [] stage = "text"    -> "paste"
      [] stage = "paste"   -> "flatten"
      [] stage = "flatten" -> "to_rgb"
      [] OTHER             -> "done"

\* The pixels explored: of the background, of the logo, and how much of the
\* pixel the outline copies and the fill of the text cover.
BackgroundPixels == {<<100, 150, 255>>, <<255, 255, 255>>, <<0, 0, 0>>,
                     <<37, 200, 90>>, <<1, 2, 3>>, <<128, 127, 254>>}

LogoPixels ==
    {<<rgb[1], rgb[2], rgb[3], a>> :
        rgb \in {<<255, 0, 0>>, <<10, 20, 30>>}, a \in {0, 128, 255}}

Coverages == {0, 128, 255}

PixelInit ==
    /\ gen = Idle /\ grad = Idle /\ lg = Idle /\ txt = Idle /\ lay = Idle
    /\ \E image \in BackgroundPixels, in_logo \in BOOLEAN,
          logo \in LogoPixels, outline \in Coverages, fill \in Coverages,
          ink \in {white, lightgray} :
         /\ ~in_logo => logo = <<255, 0, 0, 0>>
         /\ px = [pc |-> "convert", image |-> image, in_logo |-> in_logo,
                  logo |-> logo, outline |-> outline, fill |-> fill,
                  ink |-> ink, poster |-> <<>>, overlay |-> <<>>,
                  final_poster |-> <<>>, stages |-> <<>>]

PixelOnly == UNCHANGED <<gen, grad, lg, txt, lay>>

\* The statement at `stage` is done.
Advance(stage) == [px EXCEPT !.pc = next_stage(stage),
                             !.stages = Append(@, stage)]

\* Lines 111-113: the RGBA working copy and the transparent overlay.
PixelConvert ==
    /\ px.pc = "convert"
    /\ px' = [Advance("convert") EXCEPT !.poster = convert_RGBA(px.image),
                                        !.overlay = <<0, 0, 0, 0>>]
    /\ PixelOnly

\* Lines 117-118
PixelDarken ==
    /\ px.pc = "darken"
    /\ px' = [Advance("darken") EXCEPT !.poster = darken(px.poster)]
    /\ PixelOnly

\* Lines 130-138: the outline copies in black, then the fill, on the overlay.
PixelText ==
    /\ px.pc = "text"
    /\ px' = [Advance("text") EXCEPT
                !.overlay = draw_text_pixel(
                                draw_text_pixel(px.overlay, px.outline, black),
                                px.fill, px.ink)]
    /\ PixelOnly

\* Lines 140-142: the logo, if there is one and the pixel is inside its
\* rectangle, with itself as the mask.
PixelPasteLogo ==
    /\ px.pc = "paste"
    /\ px' = [Advance("paste") EXCEPT
                !.poster = IF px.in_logo
                           THEN paste(px.poster, px.logo, px.logo)
                           ELSE px.poster]
    /\ PixelOnly

\* Line 144
PixelFlatten ==
    /\ px.pc = "flatten"
    /\ px' = [Advance("flatten") EXCEPT
                !.final_poster = flatten(px.poster, px.overlay)]
    /\ PixelOnly

\* Line 145
PixelToRGB ==
    /\ px.pc = "to_rgb"
    /\ px' = [Advance("to_rgb") EXCEPT
                !.final_poster = convert_RGB(px.final_poster)]
    /\ PixelOnly

PixelNext ==
    \/ PixelConvert
    \/ PixelDarken
    \/ PixelText
    \/ PixelPasteLogo
    \/ PixelFlatten
    \/ PixelToRGB

SpecCompose == PixelInit /\ [][PixelNext]_vars

\* What covers the pixel.
NoText == px.outline = 0 /\ px.fill = 0

OpaqueText == px.outline = 255 \/ px.fill = 255

OpaqueLogo == px.in_logo /\ px.logo[4] = 255

NoLogo == ~px.in_logo \/ px.logo[4] = 0

\* The place of a stage in the order the stages were done.
StageIndex(stage) ==
    CHOOSE i \in 1..Len(px.stages) : px.stages[i] = stage

C1_AlwaysReturnsPoster ==
    gen.pc \in {"done", "raised"} =>
        /\ gen.pc = "done"
        /\ gen.exception = "none"
        /\ gen.final_poster # None

\* C2: the returned poster has exactly the dimensions mapped from the
\* aspect-ratio label, (1024, 1024) for an unrecognised one, whichever
\* background was used.
C2_PosterHasMappedDimensions ==
    gen.pc = "done" =>
        gen.final_poster.size =
            CASE gen.aspect_ratio = "1:1 - Square"      -> <<1024, 1024>>
              [] gen.aspect_ratio = "2:3 - Portrait"    -> <<683, 1024>>
              [] gen.aspect_ratio = "3:2 - Landscape"   -> <<1024, 683>>
              [] gen.aspect_ratio = "3:4 - Poster"      -> <<768, 1024>>
              [] gen.aspect_ratio = "16:9 - Widescreen" -> <<1024, 576>>
              [] OTHER                                  -> <<1024, 1024>>

\* The call of create_background_via_api has ended, by a return or a raise.
ApiCallEnded == gen.pc \in {"logo", "layout", "done", "raised"}

\* C9: every call of create_background_via_api sends at most `retries`
\* requests, none without a token, and whenever no attempt ended with status
\* 200 it returns the fallback gradient of the requested size with colours
\* (100,150,255) to (150,200,255).
C9_FallbackUnlessStatus200 ==
    /\ gen.sent <= 3
    /\ ~gen.HF_TOKEN => gen.sent = 0
    /\ (ApiCallEnded /\ gen.status # "200") =>
            /\ gen.pc # "raised"
            /\ gen.background =
                   [size |-> <<gen.width, gen.height>>, source |-> "gradient",
                    colors |-> <<(<<100, 150, 255>>), (<<150, 200, 255>>)>>]

\* C10: in every poster produced with a logo, the pasted logo rectangle
\* [width - logoWidth - 40, width - 40) x [40, 40 + logoHeight) lies inside
\* the poster canvas.
C10_LogoInsideCanvas ==
    (gen.pc = "done" /\ gen.processed_logo # None) =>
        /\ gen.logo_pos[1] >= 0
        /\ gen.logo_pos[1] + gen.processed_logo.size[1]
               <= gen.final_poster.size[1]
        /\ gen.logo_pos[2] >= 0
        /\ gen.logo_pos[2] + gen.processed_logo.size[2]
               <= gen.final_poster.size[2]

====
